---- MODULE Spec2Model ----
(***************************************************************************)
(* Model of dev.js, the CoasterCapital development launcher: a Node.js     *)
(* supervisor that starts a backend and a frontend shell command, logs     *)
(* each child's close event and forwards SIGINT to both before exiting.    *)
(*                                                                         *)
(* The supervisor is one JavaScript thread: the top-level script runs      *)
(* statement by statement (pc), then the event loop dispatches one         *)
(* callback at a time.  The two children are operating-system processes    *)
(* that run, exit and die in parallel with it.  The Node.js runtime        *)
(* behaviour the script relies on is modelled with it: a failed spawn is   *)
(* reported by an 'error' event on the next tick, an 'error' event without *)
(* a listener is an uncaught exception, kill() on a child that is gone     *)
(* returns false, a signal listener does not keep the event loop alive,    *)
(* and SIGINT without a listener ends the process.                         *)
(***************************************************************************)
EXTENDS Integers, Sequences, FiniteSets, TLC

(* ----------------------------- bounds ---------------------------------- *)
\* exit codes a child may return are 0..MaxCode
MaxCode == 1
\* interrupts that may be pending for the supervisor at one time
MaxSigint == 2

(* --------------------------- constants --------------------------------- *)
Names == {"backend", "frontend"}

backendCommand == "cd backend && source .venv/bin/activate && uvicorn app.main:app --reload"

frontendCommand == "cd frontend && npm run dev"

Codes == 0..MaxCode

\* JavaScript null: the code of a child that was ended by a signal, and the
\* exitCode of a child that has not ended
null == -1

VARIABLES
  pc,          \* statement the supervisor's JavaScript thread is at
  sup,         \* the supervisor process: running, or how it ended
  trace,       \* what the supervisor has done so far: prints, spawns, kills, exit
  proc,        \* per child: the operating-system process
  exitCode,    \* per child: the code it ended with (null: none, or a signal)
  handle,      \* per child: the ChildProcess handle the supervisor holds
  errPending,  \* per child: a spawn 'error' event queued for the next tick
  delivered,   \* per child: interrupts of the supervisor that reached it alive
  registered,  \* the SIGINT listener is installed
  sigint,      \* interrupts received by the supervisor and not yet dispatched
  handlerRuns  \* how many times the SIGINT listener body has been entered

vars == <<pc, sup, trace, proc, exitCode, handle, errPending, delivered,
          registered, sigint, handlerRuns>>

(* ----------------------------- helpers --------------------------------- *)
Event(op, name, text) == [op |-> op, name |-> name, text |-> text]

Digits == <<"0", "1", "2", "3", "4", "5", "6", "7", "8", "9">>

RECURSIVE NumberToString(_)
NumberToString(n) ==
  IF n < 10 THEN Digits[n + 1]
  ELSE NumberToString(n \div 10) \o Digits[(n % 10) + 1]

\* mutant of TemplateString: `${code ?? 0}`, a signal's null printed as 0
TemplateString_NullAsZero(code) ==
  IF code = null THEN "0" ELSE NumberToString(code)

\* `${code}` in the template literal: a number in decimal, null as "null"
TemplateString(code) == IF code = null THEN "null" ELSE NumberToString(code)

\* the line the close listener prints
CloseLine(name, code) ==
  "Process " \o name \o " stopped with code " \o TemplateString(code)

\* the 'error' queued by a failed spawn is emitted before anything else
NextTickPending == \E p \in Names : errPending[p]

\* the event loop is dispatching callbacks
InLoop == sup = "running" /\ pc = "loop" /\ ~NextTickPending

(* ------------------------------ state ---------------------------------- *)
TypeOK ==
  /\ pc \in {"banner", "backend", "frontend", "listen", "loop",
             "notice", "killBackend", "killFrontend", "exit"}
  /\ sup \in {"running", "exited", "drained", "crashed", "killed"}
  /\ trace \in Seq([op : {"print", "spawn", "kill", "exit"},
                    name : Names \cup {"supervisor"}, text : STRING])
  /\ proc \in [Names -> {"none", "running", "dead", "nospawn"}]
  /\ exitCode \in [Names -> Codes \cup {null}]
  /\ handle \in [Names -> {"none", "open", "closed"}]
  /\ errPending \in [Names -> BOOLEAN]
  /\ delivered \in [Names -> Nat]
  /\ registered \in BOOLEAN
  /\ sigint \in 0..MaxSigint
  /\ handlerRuns \in Nat

\* the process as node starts it: nothing printed, no child, default signals
Init ==
  /\ pc = "banner"
  /\ sup = "running"
  /\ trace = <<>>
  /\ proc = [p \in Names |-> "none"]
  /\ exitCode = [p \in Names |-> null]
  /\ handle = [p \in Names |-> "none"]
  /\ errPending = [p \in Names |-> FALSE]
  /\ delivered = [p \in Names |-> 0]
  /\ registered = FALSE
  /\ sigint = 0
  /\ handlerRuns = 0

(* ----------------------- the top-level script -------------------------- *)
\* mutant of Banner: process.on("SIGINT") is moved to the top of the script
Banner_ListensFirst ==
  /\ sup = "running" /\ pc = "banner"
  /\ registered' = TRUE
  /\ trace' = Append(trace, Event("print", "supervisor",
                       "=== Starting CoasterCapital Dev Environment ==="))
  /\ pc' = "backend"
  /\ UNCHANGED <<sup, proc, exitCode, handle, errPending, delivered,
                 sigint, handlerRuns>>

\* console.log("=== Starting CoasterCapital Dev Environment ===")
Banner ==
  /\ sup = "running" /\ pc = "banner"
  /\ trace' = Append(trace, Event("print", "supervisor",
                       "=== Starting CoasterCapital Dev Environment ==="))
  /\ pc' = "backend"
  /\ UNCHANGED <<sup, proc, exitCode, handle, errPending, delivered,
                 registered, sigint, handlerRuns>>

\* run(command, name): spawn bash -lc command with inherited stdio, attach
\* the close listener, return the handle.  started = FALSE is a spawn that
\* could not start bash: the handle is returned all the same and the
\* failure is queued as an 'error' event for the next tick.
run(command, name, started) ==
  /\ trace' = Append(trace, Event("spawn", name, command))
  /\ handle' = [handle EXCEPT ![name] = "open"]
  /\ proc' = [proc EXCEPT ![name] = IF started THEN "running" ELSE "nospawn"]
  /\ errPending' = [errPending EXCEPT ![name] = ~started]

\* const backend = run("cd backend && ...", "backend")
StartBackend ==
  /\ sup = "running" /\ pc = "backend"
  /\ \E started \in BOOLEAN : run(backendCommand, "backend", started)
  /\ pc' = "frontend"
  /\ UNCHANGED <<sup, exitCode, delivered, registered, sigint, handlerRuns>>

\* mutant of StartFrontend: the frontend is started only if the backend is up
StartFrontend_NeedsBackend ==
  /\ sup = "running" /\ pc = "frontend"
  /\ proc["backend"] = "running"
  /\ \E started \in BOOLEAN : run(frontendCommand, "frontend", started)
  /\ pc' = "listen"
  /\ UNCHANGED <<sup, exitCode, delivered, registered, sigint, handlerRuns>>

\* mutant of StartFrontend: the second run starts the backend once more
StartFrontend_RunsBackendAgain ==
  /\ sup = "running" /\ pc = "frontend"
  /\ \E started \in BOOLEAN : run(backendCommand, "backend", started)
  /\ pc' = "listen"
  /\ UNCHANGED <<sup, exitCode, delivered, registered, sigint, handlerRuns>>

\* mutant of StartFrontend: the frontend is started when the backend has ended
StartFrontend_AfterBackendEnds ==
  /\ sup = "running" /\ pc = "frontend"
  /\ proc["backend"] # "running"
  /\ \E started \in BOOLEAN : run(frontendCommand, "frontend", started)
  /\ pc' = "listen"
  /\ UNCHANGED <<sup, exitCode, delivered, registered, sigint, handlerRuns>>

\* const frontend = run("cd frontend && npm run dev", "frontend")
StartFrontend ==
  /\ sup = "running" /\ pc = "frontend"
  /\ \E started \in BOOLEAN : run(frontendCommand, "frontend", started)
  /\ pc' = "listen"
  /\ UNCHANGED <<sup, exitCode, delivered, registered, sigint, handlerRuns>>

\* process.on("SIGINT", ...): the script ends here and the event loop starts
Listen ==
  /\ sup = "running" /\ pc = "listen"
  /\ registered' = TRUE
  /\ pc' = "loop"
  /\ UNCHANGED <<sup, trace, proc, exitCode, handle, errPending, delivered,
                 sigint, handlerRuns>>

(* --------------------------- the event loop ---------------------------- *)
\* the 'error' event of a failed spawn: run attached no 'error' listener,
\* so emitting it throws, and the uncaught exception ends the supervisor
\* before the close listener of that child is reached
SpawnError(name) ==
  /\ sup = "running" /\ pc = "loop"
  /\ errPending[name]
  /\ sup' = "crashed"
  /\ errPending' = [errPending EXCEPT ![name] = FALSE]
  /\ UNCHANGED <<pc, trace, proc, exitCode, handle, delivered, registered,
                 sigint, handlerRuns>>

\* mutant of OnClose: the close listener prints nothing
OnClose_Silent(name) ==
  /\ InLoop
  /\ handle[name] = "open" /\ proc[name] = "dead"
  /\ handle' = [handle EXCEPT ![name] = "closed"]
  /\ UNCHANGED <<pc, sup, trace, proc, exitCode, errPending, delivered,
                 registered, sigint, handlerRuns>>

\* mutant of OnClose: the close listener ends the supervisor with the
\* child's code after printing the line
OnClose_ExitsSupervisor(name) ==
  /\ InLoop
  /\ handle[name] = "open" /\ proc[name] = "dead"
  /\ handle' = [handle EXCEPT ![name] = "closed"]
  /\ trace' = Append(trace, Event("print", name, CloseLine(name, exitCode[name])))
  /\ sup' = "exited"
  /\ UNCHANGED <<pc, proc, exitCode, errPending, delivered, registered,
                 sigint, handlerRuns>>

\* mutant of OnClose: when one child closes, the listener stops the other
OnClose_KillsOther(name) ==
  /\ InLoop
  /\ handle[name] = "open" /\ proc[name] = "dead"
  /\ handle' = [handle EXCEPT ![name] = "closed"]
  /\ LET other == CHOOSE q \in Names : q # name IN
       /\ trace' = trace \o << Event("kill", other, "SIGINT"),
                              Event("print", name, CloseLine(name, exitCode[name])) >>
       /\ delivered' = [delivered EXCEPT ![other] =
                          @ + (IF handle[other] = "open" /\ proc[other] = "running"
                                 THEN 1 ELSE 0)]
  /\ UNCHANGED <<pc, sup, proc, exitCode, errPending, registered,
                 sigint, handlerRuns>>

\* mutant of OnClose: close events are handled in the order the children
\* were started, the frontend's only after the backend's
OnClose_InStartOrder(name) ==
  /\ InLoop
  /\ handle[name] = "open" /\ proc[name] = "dead"
  /\ name = "frontend" => handle["backend"] = "closed"
  /\ handle' = [handle EXCEPT ![name] = "closed"]
  /\ trace' = Append(trace, Event("print", name, CloseLine(name, exitCode[name])))
  /\ UNCHANGED <<pc, sup, proc, exitCode, errPending, delivered, registered,
                 sigint, handlerRuns>>

\* mutant of OnClose: the line is printed for the child's exit event and
\* again for its close event
OnClose_PrintsTwice(name) ==
  /\ InLoop
  /\ handle[name] = "open" /\ proc[name] = "dead"
  /\ handle' = [handle EXCEPT ![name] =
                  IF \E i \in 1..Len(trace) :
                        trace[i].op = "print" /\ trace[i].name = name
                    THEN "closed" ELSE "open"]
  /\ trace' = Append(trace, Event("print", name, CloseLine(name, exitCode[name])))
  /\ UNCHANGED <<pc, sup, proc, exitCode, errPending, delivered, registered,
                 sigint, handlerRuns>>

\* p.on("close", (code) => console.log(...)): with inherited stdio the close
\* event follows the child's end at once; code is its exit code, or null
\* when a signal ended it
OnClose(name) ==
  /\ InLoop
  /\ handle[name] = "open" /\ proc[name] = "dead"
  /\ handle' = [handle EXCEPT ![name] = "closed"]
  /\ trace' = Append(trace, Event("print", name, CloseLine(name, exitCode[name])))
  /\ UNCHANGED <<pc, sup, proc, exitCode, errPending, delivered, registered,
                 sigint, handlerRuns>>

\* nothing keeps the event loop alive once both children are closed (a
\* signal listener does not): the supervisor process ends by itself
Drain ==
  /\ InLoop
  /\ \A p \in Names : handle[p] = "closed"
  /\ sup' = "drained"
  /\ UNCHANGED <<pc, trace, proc, exitCode, handle, errPending, delivered,
                 registered, sigint, handlerRuns>>

(* ------------------------- the SIGINT listener ------------------------- *)
\* mutant of kill: signalling a child that is gone throws (as process.kill
\* does for a process id that no longer exists)
kill_ThrowsOnDead(h, st) ==
  IF h = "open" /\ st = "running" THEN "sent" ELSE "throw"

\* subprocess.kill("SIGINT") as the runtime performs it, h the handle and st
\* the child's process: the signal is sent while the handle is open; a child
\* that has ended but is not yet closed takes it without effect, a closed
\* handle makes kill return false; nothing is thrown in either case
kill(h, st) ==
  IF h = "open" /\ st = "running" THEN "sent" ELSE "noop"

\* one kill statement of the listener, then on to statement next
Forward(name, next) ==
  LET r == kill(handle[name], proc[name]) IN
    /\ trace' = Append(trace, Event("kill", name, "SIGINT"))
    /\ delivered' = [delivered EXCEPT ![name] = @ + (IF r = "sent" THEN 1 ELSE 0)]
    /\ IF r = "throw"
         THEN sup' = "crashed" /\ pc' = pc
         ELSE sup' = sup /\ pc' = next

\* mutant of SigintNotice: the listener goes straight to the frontend
SigintNotice_SkipsBackend ==
  /\ InLoop
  /\ registered /\ sigint > 0
  /\ sigint' = sigint - 1
  /\ handlerRuns' = handlerRuns + 1
  /\ trace' = Append(trace, Event("print", "supervisor",
                                  "\nStopping all processes..."))
  /\ pc' = "killFrontend"
  /\ UNCHANGED <<sup, proc, exitCode, handle, errPending, delivered, registered>>

\* the event loop dispatches a pending SIGINT to the listener:
\* console.log("\nStopping all processes...")
SigintNotice ==
  /\ InLoop
  /\ registered /\ sigint > 0
  /\ sigint' = sigint - 1
  /\ handlerRuns' = handlerRuns + 1
  /\ trace' = Append(trace, Event("print", "supervisor",
                                  "\nStopping all processes..."))
  /\ pc' = "killBackend"
  /\ UNCHANGED <<sup, proc, exitCode, handle, errPending, delivered, registered>>

\* backend.kill("SIGINT")
SigintKillBackend ==
  /\ sup = "running" /\ pc = "killBackend"
  /\ Forward("backend", "killFrontend")
  /\ UNCHANGED <<proc, exitCode, handle, errPending, registered, sigint,
                 handlerRuns>>

\* mutant of SigintKillFrontend: the second kill names the backend again
SigintKillFrontend_KillsBackendAgain ==
  /\ sup = "running" /\ pc = "killFrontend"
  /\ Forward("backend", "exit")
  /\ UNCHANGED <<proc, exitCode, handle, errPending, registered, sigint,
                 handlerRuns>>

\* frontend.kill("SIGINT")
SigintKillFrontend ==
  /\ sup = "running" /\ pc = "killFrontend"
  /\ Forward("frontend", "exit")
  /\ UNCHANGED <<proc, exitCode, handle, errPending, registered, sigint,
                 handlerRuns>>

\* mutant of SigintExit: the supervisor exits only when no child is running
SigintExit_WaitsForChildren ==
  /\ sup = "running" /\ pc = "exit"
  /\ \A p \in Names : proc[p] # "running"
  /\ sup' = "exited"
  /\ trace' = Append(trace, Event("exit", "supervisor", ""))
  /\ UNCHANGED <<pc, proc, exitCode, handle, errPending, delivered, registered,
                 sigint, handlerRuns>>

\* mutant of SigintExit: process.exit() is missing, the listener returns to
\* the event loop
SigintExit_Returns ==
  /\ sup = "running" /\ pc = "exit"
  /\ pc' = "loop"
  /\ UNCHANGED <<sup, trace, proc, exitCode, handle, errPending, delivered,
                 registered, sigint, handlerRuns>>

\* process.exit()
SigintExit ==
  /\ sup = "running" /\ pc = "exit"
  /\ sup' = "exited"
  /\ trace' = Append(trace, Event("exit", "supervisor", ""))
  /\ UNCHANGED <<pc, proc, exitCode, handle, errPending, delivered, registered,
                 sigint, handlerRuns>>

(* --------------------------- the environment --------------------------- *)
\* an interrupt reaches the supervisor while its listener is installed: it
\* is kept for the event loop, also while the listener body is running
Interrupt ==
  /\ sup = "running" /\ registered
  /\ sigint < MaxSigint
  /\ sigint' = sigint + 1
  /\ UNCHANGED <<pc, sup, trace, proc, exitCode, handle, errPending, delivered,
                 registered, handlerRuns>>

\* an interrupt reaches the supervisor before process.on("SIGINT") has run:
\* the default disposition ends the process on the spot
InterruptEarly ==
  /\ sup = "running" /\ ~registered
  /\ sup' = "killed"
  /\ UNCHANGED <<pc, trace, proc, exitCode, handle, errPending, delivered,
                 registered, sigint, handlerRuns>>

\* a child's command ends by itself with exit code code (whether or not the
\* supervisor still exists)
ChildExit(name, code) ==
  /\ proc[name] = "running"
  /\ proc' = [proc EXCEPT ![name] = "dead"]
  /\ exitCode' = [exitCode EXCEPT ![name] = code]
  /\ UNCHANGED <<pc, sup, trace, handle, errPending, delivered, registered,
                 sigint, handlerRuns>>

\* a child is ended by a signal (the forwarded interrupt, the terminal's own
\* interrupt, or any other): it has no exit code
ChildSignalled(name) ==
  /\ proc[name] = "running"
  /\ proc' = [proc EXCEPT ![name] = "dead"]
  /\ exitCode' = [exitCode EXCEPT ![name] = null]
  /\ UNCHANGED <<pc, sup, trace, handle, errPending, delivered, registered,
                 sigint, handlerRuns>>

(* -------------------------- specifications ----------------------------- *)
Next ==
  \/ Banner
  \/ StartBackend
  \/ StartFrontend
  \/ Listen
  \/ \E name \in Names : SpawnError(name)
  \/ \E name \in Names : OnClose(name)
  \/ Drain
  \/ SigintNotice
  \/ SigintKillBackend
  \/ SigintKillFrontend
  \/ SigintExit
  \/ Interrupt
  \/ InterruptEarly
  \/ \E name \in Names, code \in Codes : ChildExit(name, code)
  \/ \E name \in Names : ChildSignalled(name)

Spec == Init /\ [][Next]_vars

\* what the supervisor's own thread does next, it does: the script runs to
\* its end and the event loop dispatches what is pending.  Nothing is
\* assumed of the operator or of the children.
Fairness ==
  /\ WF_vars(Banner)
  /\ WF_vars(StartBackend)
  /\ WF_vars(StartFrontend)
  /\ WF_vars(Listen)
  /\ \A name \in Names : WF_vars(SpawnError(name))
  /\ \A name \in Names : WF_vars(OnClose(name))
  /\ WF_vars(Drain)
  /\ WF_vars(SigintNotice)
  /\ WF_vars(SigintKillBackend)
  /\ WF_vars(SigintKillFrontend)
  /\ WF_vars(SigintExit)

FairSpec == Spec /\ Fairness

(* ------------------- reading the supervisor's trace -------------------- *)
\* positions of the trace where the supervisor did op for name
At(op, name) ==
  {i \in 1..Len(trace) : trace[i].op = op /\ trace[i].name = name}

\* the exit line of child name has been printed
Logged(name) == At("print", name) # {}

InHandler == pc \in {"killBackend", "killFrontend", "exit"}

StoppingNotice == Event("print", "supervisor", "\nStopping all processes...")

\* the four effects of a complete shutdown, in the order the claim gives
ShutdownOrder ==
  << StoppingNotice,
     Event("kill", "backend", "SIGINT"),
     Event("kill", "frontend", "SIGINT"),
     Event("exit", "supervisor", "") >>

\* what the supervisor has done from its first shutdown effect on
ShutdownPart ==
  LET S == {i \in 1..Len(trace) : trace[i].op \in {"kill", "exit"}
                                    \/ trace[i] = StoppingNotice}
  IN IF S = {} THEN <<>>
     ELSE SubSeq(trace, CHOOSE i \in S : \A j \in S : i <= j, Len(trace))

\* how many of the four effects the listener has performed, by its position
ShutdownDone ==
  IF handlerRuns = 0 THEN 0
  ELSE IF sup = "exited" THEN 4
  ELSE CASE pc = "killBackend" -> 1
         [] pc = "killFrontend" -> 2
         [] OTHER -> 3

(* ------------------------------ claims --------------------------------- *)
\* C1: handling an interrupt, the supervisor prints the shutdown notice,
\* then sends SIGINT to backend, then to frontend, then exits: at every
\* moment what it has done of the shutdown is exactly the first steps of
\* that order, as many as the listener has run, with nothing skipped,
\* reordered or put in between, and all four once it has exited.
C1_ShutdownOrder ==
  /\ ShutdownPart = SubSeq(ShutdownOrder, 1, ShutdownDone)
  /\ (sup = "exited" => ShutdownPart = ShutdownOrder)

\* C1 witness: a shutdown that ran to its end
C1_Witness == sup = "exited" /\ Len(ShutdownPart) = 4

\* C2 as stated, in the case it names: a child that terminated after the
\* interrupt forwarded during shutdown reached it gets its exit line too.
C2_Original ==
  \A p \in Names : (proc[p] = "dead" /\ delivered[p] > 0) ~> Logged(p)

\* C2 as amended: every child that has terminated gets its exit line unless
\* the supervisor itself ends first.
C2_LoggedWhileRunning ==
  \A p \in Names : (proc[p] = "dead") ~> (Logged(p) \/ sup # "running")

\* C2 witness: a terminated child whose exit line a running supervisor printed
C2_Witness ==
  \E p \in Names : proc[p] = "dead" /\ Logged(p) /\ sup = "running"

\* C3: once an interrupt is pending for the supervisor, or its listener has
\* been entered, the supervisor terminates, whatever the children do.
C3_InterruptTerminates ==
  (sigint > 0 \/ handlerRuns > 0) ~> (sup # "running")

\* C3 witness: the supervisor has exited from its listener and both children
\* are still running
C3_Witness ==
  /\ sup = "exited" /\ handlerRuns = 1
  /\ \A p \in Names : proc[p] = "running"

\* C4 as stated: a spawn that could not start the shell is reported by that
\* child's exit line with an error code, and never ends the supervisor.
C4_Original ==
  /\ sup # "crashed"
  /\ \A p \in Names :
       (proc[p] = "nospawn" /\ ~errPending[p]) =>
          /\ Logged(p)
          /\ \A i \in At("print", p) : trace[i].text # CloseLine(p, 0)

\* the backend command has failed: it ended with a non-zero code or by a signal
BackendFailed == proc["backend"] = "dead" /\ exitCode["backend"] # 0

\* C5: when the backend command fails, even before the frontend is started,
\* the frontend is started all the same (unless an interrupt ends the
\* supervisor during start-up); the backend's exit line is printed, with its
\* non-zero code or null, as long as no interrupt arrives and the frontend's
\* shell could be started; printing it leaves the supervisor running, and the
\* supervisor never crashes over a command that failed.
C5_BackendFailure ==
  /\ BackendFailed ~> (handle["frontend"] # "none" \/ sup = "killed")
  /\ BackendFailed ~> \/ Logged("backend")
                      \/ sigint > 0 \/ handlerRuns > 0 \/ sup = "killed"
                      \/ proc["frontend"] = "nospawn"
  /\ [](\A i \in At("print", "backend") :
          BackendFailed => trace[i].text # "Process backend stopped with code 0")
  /\ [](sup = "crashed" => \E p \in Names : proc[p] = "nospawn")
  /\ [][(~Logged("backend") /\ Logged("backend")') => sup' = "running"]_vars

\* C5 witness: the backend failed, its line is printed, the frontend runs and
\* so does the supervisor
C5_Witness ==
  /\ BackendFailed /\ Logged("backend")
  /\ proc["frontend"] = "running" /\ sup = "running"

\* C6 as stated, for children that were started: however they exit, one or
\* both, the supervisor terminates only through an interrupt.
C6_Original ==
  (sup # "running" /\ \A p \in Names : proc[p] # "nospawn")
     => sup \in {"exited", "killed"}

\* C6 as amended: the supervisor ends only by an interrupt (process.exit()
\* at the end of its listener, or the default action before the listener is
\* installed), or by itself once both children have terminated and their
\* exit lines are printed; the exit of one child alone never ends it, and the
\* only other end is the uncaught error of a spawn that never started.
C6_WaysToTerminate ==
  [][(sup = "running" /\ sup' # "running") =>
        \/ sup' = "exited" /\ pc = "exit" /\ handlerRuns = 1
        \/ sup' = "killed" /\ ~registered
        \/ sup' = "drained" /\ \A p \in Names :
                                  proc[p] = "dead" /\ handle[p] = "closed" /\ Logged(p)
        \/ sup' = "crashed" /\ \E p \in Names : proc[p] = "nospawn"]_vars

\* C6 witness: both children exited and were logged, and the supervisor
\* ended without any interrupt
C6_Witness == sup = "drained" /\ handlerRuns = 0 /\ sigint = 0

\* C7: no child is ever started twice and no third process is started; from
\* the end of the start-up script on, backend and frontend have each been
\* started exactly once; a child that has terminated stays terminated.
C7_TwoProcesses ==
  /\ [](\A p \in Names : Cardinality(At("spawn", p)) <= 1)
  /\ [](Cardinality({i \in 1..Len(trace) : trace[i].op = "spawn"}) <= 2)
  /\ [](pc \notin {"banner", "backend", "frontend"} =>
          \A p \in Names : Cardinality(At("spawn", p)) = 1 /\ handle[p] # "none")
  /\ [][\A p \in Names : proc[p] \in {"dead", "nospawn"} => proc'[p] = proc[p]]_vars

\* C7 witness: both children have terminated and been logged, and still each
\* was started once
C7_Witness ==
  /\ \A p \in Names : proc[p] = "dead" /\ Logged(p)
  /\ Cardinality({i \in 1..Len(trace) : trace[i].op = "spawn"}) = 2

\* C8: every exit line names the child it was started for and reports that
\* child's own outcome: its exit code in decimal, in particular 0 for 0, and
\* null, never a number, for a child a signal ended.
C8_ExitLine ==
  \A p \in Names : \A i \in At("print", p) :
    /\ proc[p] = "dead"
    /\ \E j \in At("spawn", p) : j < i
    /\ trace[i].text = "Process " \o p \o " stopped with code " \o
                         (IF exitCode[p] = null THEN "null" ELSE ToString(exitCode[p]))
    /\ (exitCode[p] = 0 => trace[i].text = "Process " \o p \o " stopped with code 0")

\* C8 witness: backend exited with 0 and frontend was ended by a signal, and
\* both lines are printed
C8_Witness ==
  /\ \E i \in At("print", "backend") :
        trace[i].text = "Process backend stopped with code 0"
  /\ \E i \in At("print", "frontend") :
        trace[i].text = "Process frontend stopped with code null"

\* C9: the listener body is entered at most once; once it has been entered
\* the supervisor does not fail; and with a further interrupt pending while
\* the body runs, the supervisor still exits.
C9_SecondInterrupt ==
  /\ [](handlerRuns <= 1)
  /\ [](handlerRuns > 0 => sup \in {"running", "exited"})
  /\ (InHandler /\ sigint > 0) ~> (sup = "exited")

\* C9 witness: the supervisor exited with interrupts still pending that
\* arrived while its listener was running
C9_Witness ==
  sup = "exited" /\ handlerRuns = 1 /\ sigint = MaxSigint

\* the step just taken is a kill of child name
KillStep(name) ==
  /\ Len(trace') = Len(trace) + 1
  /\ trace'[Len(trace')] = Event("kill", name, "SIGINT")

\* C10: in the listener, a kill of a child that is no longer running changes
\* nothing of either child and raises no error, the listener goes on to its
\* next statement, a child that is running does get the signal, and the
\* supervisor exits whichever children were alive when the listener began.
C10_KillDeadChild ==
  /\ [][\A p \in Names : (KillStep(p) /\ proc[p] # "running") =>
          /\ UNCHANGED <<proc, exitCode, handle, delivered>>
          /\ sup' = "running" /\ pc' # pc]_vars
  /\ [][\A p \in Names : (KillStep(p) /\ proc[p] = "running") =>
          delivered'[p] = delivered[p] + 1]_vars
  /\ [](sup = "exited" => \A p \in Names : At("kill", p) # {})
  /\ \A alive \in SUBSET Names :
       (pc = "killBackend" /\ alive = {p \in Names : proc[p] = "running"})
          ~> (sup = "exited")

\* C10 witness: the supervisor exited; backend was already gone when it was
\* killed, and frontend was signalled
C10_Witness ==
  /\ sup = "exited"
  /\ delivered["backend"] = 0 /\ delivered["frontend"] = 1

\* the three effects of start-up, in the order the claim gives
StartupOrder ==
  << Event("print", "supervisor", "=== Starting CoasterCapital Dev Environment ==="),
     Event("spawn", "backend", backendCommand),
     Event("spawn", "frontend", frontendCommand) >>

\* how many of the three effects the script has performed, by its position
StartupDone ==
  CASE pc = "banner" -> 0
    [] pc = "backend" -> 1
    [] pc = "frontend" -> 2
    [] OTHER -> 3

\* the step just taken is the start of child name
SpawnStep(name) ==
  /\ Len(trace') = Len(trace) + 1
  /\ trace'[Len(trace')].op = "spawn" /\ trace'[Len(trace')].name = name

\* C11: the trace begins with the banner, then the start of the backend,
\* then the start of the frontend, as far as the script has run; a start
\* hands back the handle and moves on to the next statement in the same
\* step, whether or not bash came up; and the script at a start statement
\* performs it (unless an interrupt ends the supervisor first) whatever the
\* backend is doing: running, not yet ready, or already ended.
C11_StartupOrder ==
  /\ [](/\ Len(trace) >= StartupDone
        /\ SubSeq(trace, 1, StartupDone) = SubSeq(StartupOrder, 1, StartupDone)
        /\ (StartupDone < 3 => Len(trace) = StartupDone))
  /\ [][\A p \in Names : SpawnStep(p) =>
          /\ handle[p] = "none" /\ handle'[p] = "open"
          /\ pc' # pc /\ sup' = "running"]_vars
  /\ \A st \in {"running", "dead", "nospawn"} :
       (pc = "frontend" /\ proc["backend"] = st)
          ~> (handle["frontend"] = "open" \/ sup = "killed")
  /\ (pc = "backend") ~> (handle["backend"] = "open" \/ sup = "killed")

\* C11 witness: start-up is complete in order, the frontend has been started
\* and the backend is still running
C11_Witness ==
  /\ Len(trace) >= 3 /\ SubSeq(trace, 1, 3) = StartupOrder
  /\ handle["frontend"] = "open" /\ proc["backend"] = "running"

\* the step just taken printed the exit line of child name
CloseStep(name) ==
  /\ Len(trace') > Len(trace)
  /\ trace'[Len(trace')].op = "print" /\ trace'[Len(trace')].name = name

\* the step just taken is the termination of child name
EndStep(name) == proc[name] = "running" /\ proc'[name] = "dead"

\* everything the supervisor and the system hold about child name
ChildState(name) ==
  <<proc[name], exitCode[name], handle[name], errPending[name], delivered[name],
    At("kill", name), At("print", name), At("spawn", name)>>

\* C12: the termination of one child, and the close listener's printing of
\* its exit line, leave everything about the other child as it was (its
\* process, its code, its handle, the signals sent to it, its own line) and
\* leave the supervisor running at the same place, with the same interrupts
\* pending.
C12_OtherUntouched ==
  [][\A p \in Names : \A q \in Names \ {p} :
       (CloseStep(p) \/ EndStep(p)) =>
          /\ ChildState(q)' = ChildState(q)
          /\ sup' = sup /\ pc' = pc
          /\ registered' = registered /\ sigint' = sigint
          /\ handlerRuns' = handlerRuns]_vars

\* C12 witness: one child has ended and its line is printed while the other
\* child and the supervisor run on
C12_Witness ==
  \E p \in Names : \E q \in Names \ {p} :
    /\ proc[p] = "dead" /\ Logged(p)
    /\ proc[q] = "running" /\ handle[q] = "open" /\ delivered[q] = 0
    /\ sup = "running" /\ pc = "loop"

\* both children have ended and neither exit line has been printed yet,
\* with the event loop free to dispatch
BothClosesPending ==
  /\ InLoop
  /\ \A p \in Names : proc[p] = "dead" /\ handle[p] = "open" /\ ~Logged(p)

\* C13: the backend is always started before the frontend, yet nothing orders
\* their exit lines: a child that ended while the other still runs can get
\* its line at once, whichever child it is, and when both have ended and no
\* line is printed yet, the next line can be the backend's and can be the
\* frontend's.
C13_ExitLinesUnordered ==
  /\ \A i \in At("spawn", "backend") : \A j \in At("spawn", "frontend") : i < j
  /\ \A p \in Names : \A q \in Names \ {p} :
       /\ BothClosesPending => ENABLED (Next /\ Logged(p)' /\ ~Logged(q)')
       /\ (InLoop /\ proc[p] = "dead" /\ handle[p] = "open" /\ proc[q] = "running")
             => ENABLED (Next /\ Logged(p)' /\ ~Logged(q)')

\* C13 witness: both lines are printed, the frontend's before the backend's
C13_Witness ==
  \E i \in At("print", "frontend") : \E j \in At("print", "backend") : i < j

\* both lines are printed, the backend's before the frontend's
C13_OtherOrder ==
  \E i \in At("print", "backend") : \E j \in At("print", "frontend") : i < j

\* C14: the listener is installed only when both children have been started,
\* so whenever its body runs both handles exist; an interrupt that arrives
\* before it is installed ends the supervisor with nothing printed for it and
\* no signal sent to either child, and is never kept for the listener.
C14_ListenerAfterStarts ==
  /\ registered => \A p \in Names : handle[p] # "none" /\ At("spawn", p) # {}
  /\ (handlerRuns > 0 \/ InHandler) =>
        registered /\ \A p \in Names : handle[p] # "none"
  /\ ~registered => sigint = 0 /\ handlerRuns = 0
  /\ sup = "killed" =>
        /\ ~registered /\ handlerRuns = 0
        /\ ShutdownPart = <<>>
        /\ \A p \in Names : At("kill", p) = {} /\ delivered[p] = 0

\* C14 witness: an interrupt ended the supervisor after the backend was
\* started and before the listener was installed; the backend runs on,
\* unsignalled
C14_Witness ==
  /\ sup = "killed"
  /\ proc["backend"] = "running" /\ delivered["backend"] = 0

\* C15: the supervisor signals a child only from its SIGINT listener: every
\* kill in the trace comes after the shutdown notice, with the listener
\* entered; as long as the listener has not been entered (in particular when
\* no interrupt was received) no child has been signalled; and each child is
\* signalled at most once.
C15_SignalsOnlyInShutdown ==
  \A p \in Names :
    /\ Cardinality(At("kill", p)) <= 1
    /\ delivered[p] <= Cardinality(At("kill", p))
    /\ handlerRuns = 0 => At("kill", p) = {} /\ delivered[p] = 0
    /\ \A i \in At("kill", p) :
         /\ handlerRuns = 1
         /\ \E j \in 1..(i - 1) : trace[j] = StoppingNotice

\* C15 witness: the listener has signalled each child, once, and both
\* signals reached a running child
C15_Witness ==
  \A p \in Names : Cardinality(At("kill", p)) = 1 /\ delivered[p] = 1

\* C16: each child gets at most one exit line, a line is printed only for a
\* child that has terminated, and once the supervisor has ended, however it
\* ended, it prints and does nothing more.
C16_ExitLinesOnceAndNoneAfterEnd ==
  /\ [](\A p \in Names : Cardinality(At("print", p)) <= 1)
  /\ [][\A p \in Names : CloseStep(p) => proc[p] = "dead" /\ ~Logged(p)]_vars
  /\ [][sup # "running" => trace' = trace]_vars

\* C16 witness: the supervisor has exited with one child's line printed; the
\* other child ended afterwards and has no line
C16_Witness ==
  \E p \in Names : \E q \in Names \ {p} :
    /\ sup = "exited"
    /\ Logged(p)
    /\ proc[q] = "dead" /\ ~Logged(q) /\ delivered[q] = 1

====
